---- MODULE Spec2Model ----
(***************************************************************************)
(* The Pomodoro session state machine of src/src/contexts/                 *)
(* PomodoroContext.tsx (PomodoroProvider): the React state, the refs, the  *)
(* localStorage keys, the pending timers and the in-flight                 *)
(* storePomodoroSession calls, with one action per handler or callback.    *)
(* An action is the handler together with the render it causes and the     *)
(* effects of that render (RunEffects).                                    *)
(***************************************************************************)
EXTENDS Integers, Sequences, FiniteSets, TLC

VARIABLES
    state,              \* useState<PomodoroState>: the rendered state
    intervalRef,        \* useRef: time the 1 s interval was (re)armed, or NoTime
    tickers,            \* number of setInterval timers registered and not cleared
    startTimeRef,       \* useRef<Date|null>: TRUE when set
    pending,            \* handleTimerComplete calls awaiting storePomodoroSession
    autoStart,          \* the auto-start setTimeout: its due time, or NoTime
    firstRender,        \* what the callbacks of the first render closed over (skipSession)
    mounted,            \* FALSE between the first render and its effects
    lsState,            \* localStorage 'pomodoro-state': <<>> or <<state>>
    lsTimestamp,        \* localStorage 'pomodoro-timestamp', or NoTime
    lsLastAction,       \* localStorage 'pomodoro-last-action' = 'manual-pause'
    lsHiddenTimestamp,  \* localStorage 'pomodoro-hidden-timestamp', or NoTime
    hidden,             \* document.hidden
    now,                \* Date.now(), in milliseconds
    last,               \* history: the last handler run, its argument, the state before it
    run,                \* history: ticks delivered since an undisturbed start()
    vis,                \* history: the hide/show episode of a running Focus session
    isTracking,         \* useFocus: useState(false), attention tracking is active
    focusScore,         \* useFocus: useState(0), the current attention score
    metrics,            \* useFocus: useState<FocusMetrics[]>([])
    refs,               \* useFocus: the useRef cells of the behavioural tracking
    intervals,          \* the live setInterval timers made by startTracking
    listeners,          \* the startTracking calls whose event listeners are registered
    timeouts,           \* FocusProvider: the pending resume setTimeout calls
    preference,         \* localStorage 'focus-tracking-preference' = 'enabled'
    pathname,           \* usePathname(): the current route
    lastPathnameRef     \* FocusProvider: useRef(''), "" before the first effect

vars == <<state, intervalRef, tickers, startTimeRef, pending, autoStart, firstRender,
          mounted, lsState, lsTimestamp, lsLastAction, lsHiddenTimestamp,
          hidden, now, last, run, vis, isTracking, focusScore, metrics, refs,
          intervals, listeners, timeouts, preference, pathname, lastPathnameRef>>

\* the Scoring Engine (useFocus) and its provider (FocusProvider)
engineVars ==
    <<isTracking, focusScore, metrics, refs, intervals, listeners, timeouts,
      preference, pathname, lastPathnameRef>>

-----------------------------------------------------------------------------
(* Bounds of the model *)

\* seconds in a model minute (the source multiplies minutes by 60)
SecPerMin == 2
\* milliseconds by which Date.now() advances in one step of the clock
ClockStep == 1000
\* the clock stops MaxSeconds seconds after the first page load
MaxSeconds == 5
\* storePomodoroSession calls in flight at once
MaxPending == 1
\* completed focus sessions counted
MaxSessions == 3

(* Program constants *)

MsPerSecond == 1000
TickPeriod == 1000
AutoStartDelay == 3000
DefaultFocus == 25
DefaultBreak == 5
DefaultLongBreak == 15
DefaultInterval == 4

NoTime == 0 - 1
\* trackingIntervalRef.current === null
NoInterval == 0
\* the routes of the application
HomePath == "/"
DashboardPath == "/dashboard"
\* seconds between the save of a snapshot and the first page load (negative when
\* the clock was set back in between)
InitialElapsed == {0 - 1, 0, 1, SecPerMin, SecPerMin + 1}
\* Date.now() at the first page load
StartTime == (SecPerMin + 1) * MsPerSecond
MaxTime == StartTime + MaxSeconds * MsPerSecond

DEFAULT_SETTINGS ==
    [focusDuration |-> DefaultFocus, breakDuration |-> DefaultBreak,
     longBreakDuration |-> DefaultLongBreak, longBreakInterval |-> DefaultInterval]

Max(a, b) == IF a >= b THEN a ELSE b

-----------------------------------------------------------------------------
(* Inputs *)

\* what the user types into a field of the settings panel: <<field, number>>
\* (0 stands for an empty or zero entry)
SettingsInputs == {<<"focusDuration", 1>>, <<"longBreakDuration", 0 - 1>>}

\* a snapshot left in localStorage by an earlier page load
SnapshotSettings ==
    [focusDuration |-> 1, breakDuration |-> 1,
     longBreakDuration |-> 2, longBreakInterval |-> 2]

Snapshots ==
    [isRunning : BOOLEAN, isFocus : BOOLEAN, timeLeft : {SecPerMin},
     sessionCount : {1}, settings : {SnapshotSettings}]

-----------------------------------------------------------------------------
(* The mutable world a handler works on: state, refs, timers, localStorage *)

World ==
    [state |-> state, intervalRef |-> intervalRef, tickers |-> tickers,
     startTimeRef |-> startTimeRef,
     pending |-> pending, autoStart |-> autoStart, lsState |-> lsState,
     lsTimestamp |-> lsTimestamp, lsLastAction |-> lsLastAction,
     lsHiddenTimestamp |-> lsHiddenTimestamp]

\* Math.floor((Date.now() - parseInt(timestamp)) / 1000)
elapsedSeconds(timestamp) == (now - timestamp) \div MsPerSecond

\* faulty variant: the remaining time is not clamped at 0
calculateRemainingTime_unclamped(savedState, savedTimestamp) ==
    IF ~savedState.isRunning THEN savedState.timeLeft
    ELSE IF savedTimestamp = NoTime THEN savedState.timeLeft
    ELSE savedState.timeLeft - elapsedSeconds(savedTimestamp)

calculateRemainingTime(savedState, savedTimestamp) ==
    IF ~savedState.isRunning THEN savedState.timeLeft
    ELSE IF savedTimestamp = NoTime THEN savedState.timeLeft
    ELSE Max(0, savedState.timeLeft - elapsedSeconds(savedTimestamp))

\* the useState initializer
InitialState(saved, savedTimestamp) ==
    IF saved # <<>>
    THEN LET parsed == saved[1]
             calculatedTimeLeft == calculateRemainingTime(parsed, savedTimestamp)
         IN  [parsed EXCEPT !.isRunning = parsed.isRunning /\ calculatedTimeLeft > 0,
                            !.timeLeft = calculatedTimeLeft]
    ELSE [isRunning |-> FALSE, isFocus |-> TRUE,
          timeLeft |-> DEFAULT_SETTINGS.focusDuration * SecPerMin,
          sessionCount |-> 0, settings |-> DEFAULT_SETTINGS]

\* faulty variant: the timestamp of an earlier running state is left in place
saveState_keepsTimestamp(w, newState) ==
    [w EXCEPT !.lsState = <<newState>>,
              !.lsTimestamp = IF newState.isRunning THEN now ELSE @]

saveState(w, newState) ==
    [w EXCEPT !.lsState = <<newState>>,
              !.lsTimestamp = IF newState.isRunning THEN now ELSE NoTime]

updateState(w, newState) == saveState([w EXCEPT !.state = newState], newState)

\* faulty variant: the handle is dropped but the timer is not cleared
clearIntervalRef_forgets(w) ==
    [w EXCEPT !.intervalRef = NoTime]

\* if (intervalRef.current) { clearInterval(intervalRef.current); intervalRef.current = null }
clearIntervalRef(w) ==
    IF w.intervalRef # NoTime
    THEN [w EXCEPT !.intervalRef = NoTime, !.tickers = @ - 1]
    ELSE w

\* faulty variant: the timer is started again while it runs
startTimer_unguarded(w) ==
    [updateState(clearIntervalRef(w),
                 [w.state EXCEPT !.isRunning = TRUE])
       EXCEPT !.startTimeRef = TRUE]

startTimer(w) ==
    IF ~w.state.isRunning
    THEN [updateState(clearIntervalRef(w),
                      [w.state EXCEPT !.isRunning = TRUE])
            EXCEPT !.startTimeRef = TRUE]
    ELSE w

\* faulty variant: the interval is cleared but the state stays running
pauseTimer_keepsRunning(w) ==
    IF w.state.isRunning
    THEN clearIntervalRef(w)
    ELSE w

pauseTimer(w) ==
    IF w.state.isRunning
    THEN clearIntervalRef(updateState(w, [w.state EXCEPT !.isRunning = FALSE]))
    ELSE w

resetTimer(w) ==
    LET duration == IF w.state.isFocus THEN w.state.settings.focusDuration
                                       ELSE w.state.settings.breakDuration
    IN  clearIntervalRef(updateState(w, [w.state EXCEPT !.isRunning = FALSE,
                                        !.timeLeft = duration * SecPerMin]))

\* what handleTimerComplete reads of the rendered state s it closed over
Closure(s) ==
    [isFocus |-> s.isFocus, settings |-> s.settings, sessionCount |-> s.sessionCount]

\* the part of handleTimerComplete after the await; c is its closure
switchSession(w, c) ==
    IF c.isFocus
    THEN updateState(w, [w.state EXCEPT !.isFocus = FALSE,
                                        !.timeLeft = c.settings.breakDuration * SecPerMin,
                                        !.sessionCount = c.sessionCount + 1])
    ELSE LET shouldLongBreak == c.sessionCount > 0
                                /\ c.sessionCount % c.settings.longBreakInterval = 0
             breakDuration == IF shouldLongBreak THEN c.settings.longBreakDuration
                                                 ELSE c.settings.breakDuration
         IN  updateState(w, [w.state EXCEPT !.isFocus = TRUE,
                                            !.timeLeft = breakDuration * SecPerMin])

\* faulty variant: the session is not switched when no start time was recorded
handleTimerComplete_noSwitch(w, c) ==
    LET w1 == clearIntervalRef(updateState(w, [w.state EXCEPT !.isRunning = FALSE]))
    IN  IF w.startTimeRef
        THEN [w1 EXCEPT !.pending = Append(@, c)]
        ELSE w1

\* c is the closure of the callback
handleTimerComplete(w, c) ==
    LET w1 == clearIntervalRef(updateState(w, [w.state EXCEPT !.isRunning = FALSE]))
    IN  IF w.startTimeRef
        THEN [w1 EXCEPT !.pending = Append(@, c)]
        ELSE switchSession(w1, c)

\* useCallback(..., []): the handleTimerComplete of the first render
skipSession(w) == handleTimerComplete(w, firstRender)

\* faulty variant: the countdown is not resized to the new focus duration
updateSettings_keepsTimeLeft(w, field, value) ==
    clearIntervalRef(updateState(w, [w.state EXCEPT
            !.settings = [@ EXCEPT ![field] = value],
            !.isRunning = FALSE]))

updateSettings(w, field, value) ==
    clearIntervalRef(updateState(w, [w.state EXCEPT
            !.settings = [@ EXCEPT ![field] = value],
            !.isRunning = FALSE,
            !.timeLeft = IF field = "focusDuration" /\ value # 0
                         THEN value * SecPerMin ELSE @]))

enhancedPauseTimer(w) == pauseTimer([w EXCEPT !.lsLastAction = TRUE])

enhancedStartTimer(w) == startTimer([w EXCEPT !.lsLastAction = FALSE])

\* the setInterval callback
intervalCallback(w) ==
    IF w.state.timeLeft <= 1
    THEN [w EXCEPT !.state = [@ EXCEPT !.timeLeft = 0, !.isRunning = FALSE],
                   !.intervalRef = now]
    ELSE [updateState(w, [w.state EXCEPT !.timeLeft = @ - 1])
            EXCEPT !.intervalRef = now]

handleVisibilityChange(w, documentHidden) ==
    IF documentHidden /\ w.state.isRunning
    THEN [w EXCEPT !.lsHiddenTimestamp = now]
    ELSE IF ~documentHidden /\ w.state.isRunning /\ w.lsHiddenTimestamp # NoTime
    THEN LET elapsed == elapsedSeconds(w.lsHiddenTimestamp)
             newTimeLeft == Max(0, w.state.timeLeft - elapsed)
             newState == [w.state EXCEPT !.timeLeft = newTimeLeft,
                                         !.isRunning = IF newTimeLeft = 0 THEN FALSE ELSE @]
         IN  [updateState(w, newState) EXCEPT !.lsHiddenTimestamp = NoTime]
    ELSE w

\* parseInt(e.target.value) || <default of the field>
parsedInput(field, raw) == IF raw = 0 THEN DEFAULT_SETTINGS[field] ELSE raw

-----------------------------------------------------------------------------
(* The effects of a render.  old is the previously rendered state, w.state *)
(* the rendered one; cause is "mount" for the first render, "settings"     *)
(* when the render follows updateSettings (a new settings object), else    *)
(* "render".  Cleanups of the effects whose dependencies changed run       *)
(* first, then the effect bodies in source order.  An effect that changes  *)
(* the state causes a further render.                                      *)

RECURSIVE RunEffects(_, _, _)
RunEffects(old, w, cause) ==
    LET new == w.state
        runChanged == old.isRunning # new.isRunning
        timeChanged == old.timeLeft # new.timeLeft
        callbackChanged == \/ old.isFocus # new.isFocus
                           \/ old.settings # new.settings
                           \/ old.sessionCount # new.sessionCount
                           \/ cause = "settings"
        completionRuns == cause = "mount" \/ runChanged \/ timeChanged \/ callbackChanged
        autoStartRuns == cause = "mount" \/ runChanged \/ timeChanged
        intervalRuns == cause = "mount" \/ runChanged
        expired == ~new.isRunning /\ new.timeLeft = 0
        w0 == IF intervalRuns THEN clearIntervalRef(w) ELSE w
        w1 == [w0 EXCEPT !.autoStart = IF autoStartRuns THEN NoTime ELSE @]
        w2 == IF completionRuns /\ expired THEN handleTimerComplete(w1, Closure(new)) ELSE w1
        w3 == IF autoStartRuns /\ expired /\ ~w2.lsLastAction
              THEN [w2 EXCEPT !.autoStart = now + AutoStartDelay] ELSE w2
        w4 == IF intervalRuns /\ new.isRunning /\ w3.intervalRef = NoTime
              THEN [w3 EXCEPT !.intervalRef = now, !.tickers = @ + 1] ELSE w3
    IN  IF w4.state = new THEN w4 ELSE RunEffects(new, w4, "render")

Commit(w) ==
    /\ state' = w.state
    /\ intervalRef' = w.intervalRef
    /\ tickers' = w.tickers
    /\ startTimeRef' = w.startTimeRef
    /\ pending' = w.pending
    /\ autoStart' = w.autoStart
    /\ lsState' = w.lsState
    /\ lsTimestamp' = w.lsTimestamp
    /\ lsLastAction' = w.lsLastAction
    /\ lsHiddenTimestamp' = w.lsHiddenTimestamp

NoArg == <<"", 0, 0>>
Did(op, arg) ==
    last' = [op |-> op, arg |-> arg, wasRunning |-> state.isRunning, wasFocus |-> state.isFocus]

\* the step is a run of the handler op (the clock stands still while a handler runs)
Handled(op) == now' = now /\ last'.op = op

-----------------------------------------------------------------------------
(* Initial states: the first render of a page load, over what an earlier   *)
(* page load left in localStorage.  A behaviour is the life of one page    *)
(* load.                                                                   *)

\* the useRef cells of useFocus as the hook makes them at time t
freshRefs(t) ==
    [trackingIntervalRef |-> NoInterval, sessionIdRef |-> NoTime,
     lastActivityRef |-> t, mouseMovementsRef |-> <<>>,
     keyPressesRef |-> <<>>, clicksRef |-> <<>>, scrollsRef |-> <<>>,
     idleTimeRef |-> 0, pageVisibilityRef |-> TRUE, windowFocusRef |-> TRUE]

\* useFocus and FocusProvider after construction; saved is the tracking preference
\* an earlier page load left in localStorage
EngineInit(saved) ==
    /\ isTracking = FALSE
    /\ focusScore = 0
    /\ metrics = <<>>
    /\ refs = freshRefs(now)
    /\ intervals = {}
    /\ listeners = {}
    /\ timeouts = <<>>
    /\ preference = saved
    /\ pathname = HomePath
    /\ lastPathnameRef = ""

\* PomodoroProvider after construction
TimerInit ==
    /\ now = StartTime
    /\ lsState \in {<<>>} \cup {<<s>> : s \in Snapshots}
    /\ \E e \in InitialElapsed :
          lsTimestamp = IF lsState # <<>> /\ lsState[1].isRunning
                        THEN now - e * MsPerSecond ELSE NoTime
    /\ lsLastAction = FALSE
    /\ lsHiddenTimestamp = NoTime
    /\ state = InitialState(lsState, lsTimestamp)
    /\ firstRender = Closure(state)
    /\ mounted = FALSE
    /\ intervalRef = NoTime
    /\ tickers = 0
    /\ startTimeRef = FALSE
    /\ pending = <<>>
    /\ autoStart = NoTime
    /\ hidden = FALSE
    /\ last = [op |-> "load", arg |-> NoArg, wasRunning |-> FALSE, wasFocus |-> FALSE]
    /\ run = <<>>
    /\ vis = <<>>

Init == TimerInit /\ EngineInit(FALSE)

-----------------------------------------------------------------------------
(* Actions *)

\* a handler's world after the render it causes, if the model's bound admits it
Render(w, cause) ==
    LET w1 == RunEffects(state, w, cause)
    IN  /\ Len(w1.pending) <= MaxPending
        /\ w1.state.sessionCount <= MaxSessions
        /\ Commit(w1)

\* the effects of the first render
Mount ==
    /\ ~mounted
    /\ Render(World, "mount")
    /\ mounted' = TRUE
    /\ Did("mount", NoArg)
    /\ UNCHANGED <<engineVars, firstRender, hidden, now, run, vis>>

UserCan == mounted /\ ~hidden

Start ==
    /\ UserCan
    /\ Render(enhancedStartTimer(World), "render")
    /\ Did("start", NoArg)
    /\ run' = IF /\ ~state.isRunning
                 /\ pending = <<>>
                 /\ state.isFocus
                 /\ state.timeLeft = state.settings.focusDuration * SecPerMin
              THEN <<[ticks |-> 0, count |-> state.sessionCount]>>
              ELSE <<>>
    /\ vis' = <<>>
    /\ UNCHANGED <<engineVars, firstRender, mounted, hidden, now>>

Pause ==
    /\ UserCan
    /\ Render(enhancedPauseTimer(World), "render")
    /\ Did("pause", NoArg)
    /\ run' = <<>>
    /\ vis' = <<>>
    /\ UNCHANGED <<engineVars, firstRender, mounted, hidden, now>>

Reset ==
    /\ UserCan
    /\ Render(resetTimer(World), "render")
    /\ Did("reset", NoArg)
    /\ run' = <<>>
    /\ vis' = <<>>
    /\ UNCHANGED <<engineVars, firstRender, mounted, hidden, now>>

Skip ==
    /\ UserCan
    /\ Render(skipSession(World), "render")
    /\ Did("skip", NoArg)
    /\ run' = <<>>
    /\ vis' = <<>>
    /\ UNCHANGED <<engineVars, firstRender, mounted, hidden, now>>

\* SettingsPanel: onChange of the input of `field`
UpdateSettings(field, raw) ==
    /\ UserCan
    /\ Render(updateSettings(World, field, parsedInput(field, raw)), "settings")
    /\ Did("updateSettings", <<field, parsedInput(field, raw), state.settings[field]>>)
    /\ run' = <<>>
    /\ vis' = <<>>
    /\ UNCHANGED <<engineVars, firstRender, mounted, hidden, now>>

\* the 1 s interval fires
Tick ==
    /\ mounted
    /\ intervalRef # NoTime
    /\ now - intervalRef >= TickPeriod
    /\ Render(intervalCallback(World), "render")
    /\ Did("tick", NoArg)
    /\ run' = IF run # <<>> THEN <<[run[1] EXCEPT !.ticks = @ + 1]>> ELSE run
    /\ vis' = IF vis # <<>> /\ ~vis[1].shown THEN vis ELSE <<>>
    /\ UNCHANGED <<engineVars, firstRender, mounted, hidden, now>>

\* the auto-start timeout fires: startTimer of the render that armed it
AutoStartFires ==
    /\ mounted
    /\ autoStart # NoTime
    /\ now >= autoStart
    /\ Render(startTimer([World EXCEPT !.autoStart = NoTime]), "render")
    /\ Did("autoStart", NoArg)
    /\ vis' = IF vis # <<>> /\ ~vis[1].shown THEN vis ELSE <<>>
    /\ UNCHANGED <<engineVars, firstRender, mounted, hidden, now, run>>

\* storePomodoroSession settles (resolved or rejected): the i-th call resumes
StoreSettles(i) ==
    /\ mounted
    /\ i \in 1..Len(pending)
    /\ LET rest == SubSeq(pending, 1, i - 1) \o SubSeq(pending, i + 1, Len(pending))
       IN  Render(switchSession([World EXCEPT !.pending = rest], pending[i]), "render")
    /\ Did("settle", NoArg)
    /\ UNCHANGED <<engineVars, firstRender, mounted, hidden, now, run, vis>>

\* document visibilitychange
VisibilityChange ==
    /\ mounted
    /\ hidden' = ~hidden
    /\ Render(handleVisibilityChange(World, ~hidden), "render")
    /\ Did(IF hidden THEN "visible" ELSE "hidden", NoArg)
    /\ run' = <<>>
    /\ vis' = IF ~hidden
              THEN IF state.isRunning /\ state.isFocus /\ pending = <<>>
                   THEN <<[timeLeft |-> state.timeLeft, count |-> state.sessionCount,
                           at |-> now, shown |-> FALSE]>>
                   ELSE <<>>
              ELSE IF vis # <<>> /\ now - vis[1].at >= vis[1].timeLeft * MsPerSecond
                   THEN <<[vis[1] EXCEPT !.shown = TRUE]>>
                   ELSE <<>>
    /\ UNCHANGED <<engineVars, firstRender, mounted, now>>

\* wall-clock time passes
AdvanceClock ==
    /\ mounted
    /\ now + ClockStep <= MaxTime
    /\ now' = now + ClockStep
    /\ UNCHANGED <<engineVars, state, intervalRef, tickers, startTimeRef, pending,
                   autoStart, firstRender,
                   mounted, lsState, lsTimestamp, lsLastAction, lsHiddenTimestamp,
                   hidden, last, run, vis>>

Next ==
    \/ Mount
    \/ Start
    \/ Pause
    \/ Reset
    \/ Skip
    \/ \E input \in SettingsInputs : UpdateSettings(input[1], input[2])
    \/ Tick
    \/ AutoStartFires
    \/ \E i \in 1..MaxPending : StoreSettles(i)
    \/ VisibilityChange
    \/ AdvanceClock

Spec == Init /\ [][Next]_vars

-----------------------------------------------------------------------------
(* Properties *)

\* C1: in every reachable state 0 <= timeLeft <= (minutes of the current phase) * 60,
\* the phase lasting focusDuration in Focus and, in Break, the longer of the two break
\* durations at most
C1_TimeLeftInRange ==
    LET phaseMinutes == IF state.isFocus THEN state.settings.focusDuration
                        ELSE Max(state.settings.breakDuration,
                                 state.settings.longBreakDuration)
    IN  /\ 0 <= state.timeLeft
        /\ state.timeLeft <= phaseMinutes * SecPerMin

\* C2: a snapshot saved running with timeLeft T, loaded e whole seconds later, gives
\* the initial state timeLeft = max(0, T - e), running = (T - e > 0), and the phase,
\* the count and the settings of the snapshot
C2_Recovery ==
    \A e \in 0..(MaxSeconds + SecPerMin + 1) :
        ( /\ ~mounted
          /\ lsState # <<>>
          /\ lsState[1].isRunning
          /\ lsTimestamp # NoTime
          /\ now = lsTimestamp + e * MsPerSecond )
        => /\ state.timeLeft = Max(0, lsState[1].timeLeft - e)
           /\ state.isRunning = (lsState[1].timeLeft - e > 0)
           /\ state.isFocus = lsState[1].isFocus
           /\ state.sessionCount = lsState[1].sessionCount
           /\ state.settings = lsState[1].settings

\* C2 witness: a first render whose snapshot ran out while the page was away
C2_Witness ==
    /\ ~mounted
    /\ lsState # <<>>
    /\ lsState[1].isRunning
    /\ lsTimestamp # NoTime
    /\ elapsedSeconds(lsTimestamp) > lsState[1].timeLeft
    /\ state.timeLeft = 0
    /\ ~state.isRunning

\* C3: when the recovered timeLeft is 0, the effects of the first render switch the
\* phase once (the count grows by 1 when the recovered phase was Focus), and leave no
\* completion outstanding
C3_RecoveredCompletionOnce ==
    [][ (~mounted /\ state.timeLeft = 0)
        => /\ state'.isFocus = ~state.isFocus
           /\ state'.sessionCount = state.sessionCount + (IF state.isFocus THEN 1 ELSE 0)
           /\ pending' = <<>>
           /\ autoStart' = NoTime
           /\ state'.timeLeft # 0 ]_vars

\* C3 witness: the first render recovered an expired Focus session, its effects ran
C3_Witness ==
    /\ last.op = "mount"
    /\ firstRender.isFocus
    /\ ~state.isFocus
    /\ state.sessionCount = firstRender.sessionCount + 1
    /\ pending = <<>>

\* C4: the Break entered by the k-th Focus->Break transition lasts longBreakDuration
\* when k is a multiple of longBreakInterval, breakDuration otherwise
C4_LongBreakSchedule ==
    [][ (mounted' /\ state.isFocus /\ ~state'.isFocus)
        => state'.timeLeft =
             (IF state'.sessionCount % state'.settings.longBreakInterval = 0
              THEN state'.settings.longBreakDuration
              ELSE state'.settings.breakDuration) * SecPerMin ]_vars

\* C5: after start() from a full, stopped Focus phase with count c and exactly
\* focusDuration*60 ticks, nothing else done, the state is Break, c+1, breakDuration*60;
\* before the last tick the phase is Focus
C5_FullCountdown ==
    run # <<>> =>
        IF run[1].ticks = state.settings.focusDuration * SecPerMin
        THEN /\ ~state.isFocus
             /\ state.sessionCount = run[1].count + 1
             /\ state.timeLeft = state.settings.breakDuration * SecPerMin
        ELSE run[1].ticks < state.settings.focusDuration * SecPerMin => state.isFocus

\* C6: a Focus session hidden with timeLeft T and shown at least T seconds later has
\* completed into Break, the count incremented once (here: once no session record is
\* in flight any more)
C6_VisibilityCompletes ==
    (vis # <<>> /\ vis[1].shown /\ pending = <<>>)
    => /\ ~state.isFocus
       /\ state.sessionCount = vis[1].count + 1

\* C7: skip() performs the completion transition from the current state: Focus gives
\* Break and count+1, Break gives Focus and the same count, and running is false (here:
\* of the skips that do not wait for a session record)
C7_SkipCompletes ==
    [][ (Handled("skip") /\ pending' = <<>>)
        => /\ ~state'.isRunning
           /\ state.isFocus => (~state'.isFocus /\ state'.sessionCount = state.sessionCount + 1)
           /\ ~state.isFocus => (state'.isFocus /\ state'.sessionCount = state.sessionCount)
      ]_vars

\* C8: completedCount changes only at a Focus->Break completion, there by exactly +1,
\* and never decreases
C8_CountOnlyOnFocusCompletion ==
    [][ mounted'
        => /\ state'.sessionCount >= state.sessionCount
           /\ state'.sessionCount # state.sessionCount
                => (state.isFocus /\ ~state'.isFocus
                    /\ state'.sessionCount = state.sessionCount + 1)
           /\ (state.isFocus /\ ~state'.isFocus)
                => state'.sessionCount = state.sessionCount + 1 ]_vars

\* C9: updateSettings with a changed focusDuration F on a running Focus session gives
\* running = false, timeLeft = F*60 and settings.focusDuration = F
C9_UpdateFocusDuration ==
    [][ ( /\ Handled("updateSettings")
          /\ last'.arg[1] = "focusDuration"
          /\ last'.arg[2] # state.settings.focusDuration
          /\ state.isRunning
          /\ state.isFocus )
        => /\ ~state'.isRunning
           /\ state'.timeLeft = last'.arg[2] * SecPerMin
           /\ state'.settings.focusDuration = last'.arg[2] ]_vars

\* C9 witness: a running Focus session just had its focus duration changed
C9_Witness ==
    /\ last.op = "updateSettings"
    /\ last.arg[1] = "focusDuration"
    /\ last.arg[2] # last.arg[3]
    /\ last.wasRunning
    /\ last.wasFocus
    /\ ~state.isRunning
    /\ state.timeLeft = last.arg[2] * SecPerMin

\* C10: all four settings are > 0 in every reachable state
C10_SettingsPositive ==
    /\ state.settings.focusDuration > 0
    /\ state.settings.breakDuration > 0
    /\ state.settings.longBreakDuration > 0
    /\ state.settings.longBreakInterval > 0

\* C11: start() while the session is running changes neither the state (phase,
\* timeLeft, count, settings, running) nor the registered interval, and arms nothing
C11_StartWhileRunning ==
    [][ (Handled("start") /\ state.isRunning)
        => /\ state' = state
           /\ intervalRef' = intervalRef
           /\ pending' = pending
           /\ autoStart' = autoStart ]_vars

\* C11 witness: start() was called on a running session whose interval is armed
C11_Witness ==
    /\ last.op = "start"
    /\ last.wasRunning
    /\ state.isRunning
    /\ intervalRef # NoTime

\* a paused machine: the manual-pause marker is set, nothing runs, no interval and
\* no auto-start timeout is registered
Paused ==
    /\ lsLastAction
    /\ ~state.isRunning
    /\ intervalRef = NoTime
    /\ autoStart = NoTime

C13_ResetToPhaseDuration ==
    [][ Handled("reset")
        => LET longBreak == state.sessionCount % state.settings.longBreakInterval = 0
               minutes == IF state.isFocus THEN state.settings.focusDuration
                          ELSE IF longBreak THEN state.settings.longBreakDuration
                          ELSE state.settings.breakDuration
           IN  /\ ~state'.isRunning
               /\ state'.timeLeft = minutes * SecPerMin
               /\ state'.isFocus = state.isFocus
               /\ state'.sessionCount = state.sessionCount ]_vars

\* C14: after a Focus phase has run out by countdown (start() from the full phase, the
\* marker not set, no user action since), the machine is running in the new phase with
\* timeLeft > 0, or it is stopped with the auto-start timeout still scheduled: the
\* resume is never lost
C14_AutoResume ==
    (run # <<>> /\ run[1].ticks = state.settings.focusDuration * SecPerMin)
    => \/ state.isRunning /\ ~state.isFocus /\ state.timeLeft > 0
       \/ ~state.isRunning /\ autoStart # NoTime

\* C15: the auto-start timeout never fires right after an explicit user action (pause,
\* reset, skip, updateSettings) taken while it was pending, and never while the
\* manual-pause marker is set (i.e. between a pause() and the next start())
C15_AutoStartCancellable ==
    [][ Handled("autoStart")
        => /\ last.op \notin {"pause", "reset", "skip", "updateSettings"}
           /\ ~lsLastAction ]_vars

\* C16: when the interval callback of a running session is delivered g whole seconds
\* after the previous one (or after the interval was started), with no visibility
\* event in between, timeLeft becomes max(0, timeLeft - g), whatever the number of
\* callbacks delivered (at 0 the session stops, and may already have switched phase)
C16_TickGapReconciled ==
    [][ ( /\ Handled("tick")
          /\ last.op \in {"mount", "start", "autoStart", "tick"}
          /\ state.isRunning )
        => LET g == elapsedSeconds(intervalRef)
           IN  IF state.timeLeft > g
               THEN /\ state'.timeLeft = state.timeLeft - g
                    /\ state'.isFocus = state.isFocus
               ELSE /\ ~state'.isRunning
                    /\ state'.timeLeft = 0 \/ state'.isFocus # state.isFocus ]_vars

-----------------------------------------------------------------------------
(* Start-up over arbitrary content of localStorage 'pomodoro-state': the   *)
(* useState initializer applied to what JSON.parse returns, in JavaScript  *)
(* values.  A JavaScript value is [t |-> its type, v |-> a number]: the    *)
(* number itself, 1/0 for true/false, the identity of a settings object    *)
(* (0 for DEFAULT_SETTINGS, 1 for the object of the snapshot).             *)

Undefined == [t |-> "undefined", v |-> 0]
NaN == [t |-> "NaN", v |-> 0]
\* a string that is not a number, such as "abc"
Str == [t |-> "string", v |-> 0]
Num(n) == [t |-> "number", v |-> n]
Bool(b) == [t |-> "boolean", v |-> IF b THEN 1 ELSE 0]
Obj(id) == [t |-> "object", v |-> id]

\* the content of the item: text that is no JSON, the JSON null, or a JSON object
\* whose fields are present (well typed or not) or missing
StoredItems ==
    {[kind |-> "text"], [kind |-> "null"]} \cup
    [kind : {"object"},
     isRunning : {Bool(TRUE), Bool(FALSE), Undefined, Str},
     isFocus : {Bool(TRUE), Bool(FALSE), Undefined},
     timeLeft : {Num(SecPerMin), Undefined, Str},
     sessionCount : {Num(1), Undefined},
     settings : {Obj(1), Undefined}]

\* ToBoolean
truthy(x) ==
    CASE x.t = "boolean" -> x.v = 1
      [] x.t = "number" -> x.v # 0
      [] x.t = "string" -> TRUE
      [] x.t = "object" -> TRUE
      [] OTHER -> FALSE

\* x - n for a number n
minus(x, n) == IF x.t = "number" THEN Num(x.v - n) ELSE NaN

\* Math.max(0, x)
mathMax0(x) == IF x.t = "number" THEN Num(Max(0, x.v)) ELSE NaN

\* x > 0
positive(x) == x.t = "number" /\ x.v > 0

\* calculateRemainingTime on the parsed object
calculateRemainingTimeOf(parsed, savedTimestamp) ==
    IF ~truthy(parsed.isRunning) THEN parsed.timeLeft
    ELSE IF savedTimestamp = NoTime THEN parsed.timeLeft
    ELSE mathMax0(minus(parsed.timeLeft, elapsedSeconds(savedTimestamp)))

defaultState ==
    [isRunning |-> Bool(FALSE), isFocus |-> Bool(TRUE),
     timeLeft |-> Num(DEFAULT_SETTINGS.focusDuration * SecPerMin),
     sessionCount |-> Num(0), settings |-> Obj(0)]

\* the useState initializer; saved is <<>> when there is no item
initializer(saved, savedTimestamp) ==
    IF saved = <<>> THEN defaultState
    ELSE IF saved[1].kind = "text" THEN defaultState      \* JSON.parse throws
    ELSE IF saved[1].kind = "null" THEN defaultState      \* null.isRunning throws
    ELSE LET parsed == saved[1]
             calculatedTimeLeft == calculateRemainingTimeOf(parsed, savedTimestamp)
         IN  [isRunning |-> IF truthy(parsed.isRunning)
                            THEN Bool(positive(calculatedTimeLeft))
                            ELSE parsed.isRunning,
              isFocus |-> parsed.isFocus,
              timeLeft |-> calculatedTimeLeft,
              sessionCount |-> parsed.sessionCount,
              settings |-> parsed.settings]

\* the item holds a session state: an object with its five fields, each of its type
wellFormed(saved) ==
    /\ saved # <<>>
    /\ saved[1].kind = "object"
    /\ saved[1].isRunning.t = "boolean"
    /\ saved[1].isFocus.t = "boolean"
    /\ saved[1].timeLeft.t = "number"
    /\ saved[1].sessionCount.t = "number"
    /\ saved[1].settings.t = "object"

\* before the provider is constructed: localStorage holds any item, or none
LoadInit ==
    /\ now = StartTime
    /\ lsState \in {<<>>} \cup {<<item>> : item \in StoredItems}
    /\ lsTimestamp \in {NoTime, now - MsPerSecond}
    /\ lsLastAction = FALSE
    /\ lsHiddenTimestamp = NoTime
    /\ state = <<>>
    /\ firstRender = <<>>
    /\ mounted = FALSE
    /\ intervalRef = NoTime
    /\ tickers = 0
    /\ startTimeRef = FALSE
    /\ pending = <<>>
    /\ autoStart = NoTime
    /\ hidden = FALSE
    /\ last = [op |-> "none", arg |-> NoArg, wasRunning |-> FALSE, wasFocus |-> FALSE]
    /\ run = <<>>
    /\ vis = <<>>
    /\ EngineInit(FALSE)

\* the first render: useState runs its initializer
Construct ==
    /\ state = <<>>
    /\ state' = <<initializer(lsState, lsTimestamp)>>
    /\ UNCHANGED <<engineVars, intervalRef, tickers, startTimeRef, pending, autoStart,
                   firstRender, mounted,
                   lsState, lsTimestamp, lsLastAction, lsHiddenTimestamp, hidden, now,
                   last, run, vis>>

LoadNext == Construct

LoadSpec == LoadInit /\ [][LoadNext]_vars

\* C17: when the stored item is not a well-formed session state (no JSON, or JSON that
\* lacks or mistypes a state field), the initial state is the default one
C17_MalformedIsAbsent ==
    (state # <<>> /\ lsState # <<>> /\ ~wellFormed(lsState)) => state[1] = defaultState

\* C18: the timeLeft recovered from a running snapshot is never greater than the saved
\* one, and a visibility correction never increases timeLeft, whatever the clock shows
C18_ClockAnomalyClamped ==
    [][ /\ (~mounted /\ lsState # <<>> /\ lsState[1].isRunning /\ lsTimestamp # NoTime)
            => state.timeLeft <= lsState[1].timeLeft
        /\ ( /\ Handled("visible")
              /\ state'.isFocus = state.isFocus
              /\ state'.sessionCount = state.sessionCount )
            => state'.timeLeft <= state.timeLeft ]_vars

\* C19: when a tick brings the countdown to 0, the phase, the count and the timeLeft
\* of the completed session are in place at once, the same as after an answer of
\* storePomodoroSession, without any answer being needed
C19_SinkNeverBlocks ==
    [][ (Handled("tick") /\ state.isRunning /\ state.timeLeft <= 1)
        => LET expired == [state EXCEPT !.timeLeft = 0, !.isRunning = FALSE]
               done == switchSession([World EXCEPT !.state = expired], Closure(state)).state
           IN  /\ state'.isFocus = done.isFocus
               /\ state'.sessionCount = done.sessionCount
               /\ state'.timeLeft = done.timeLeft ]_vars

-----------------------------------------------------------------------------
(* The Scoring Engine: useFocus (src/src/hooks/useAnalytics.ts) *)

\* the period of the scoring tick
TrackingPeriod == 2000
\* activity timestamps are kept for 5 minutes
RetentionWindow == 300000
\* the metric history keeps the last MaxMetrics entries
MaxMetrics == 100
\* the largest attention score calculateFocusScore returns
MaxScore == 100
\* score units per point: the common denominator of the fractions of the score
Unit == 3000

Min(a, b) == IF a <= b THEN a ELSE b

\* list.filter(time => t - time < window)
within(list, t, window) == SelectSeq(list, LAMBDA time : t - time < window)

\* Math.round of a number of score units: the nearest integer, a half rounded up
mathRound(units) == (2 * units + Unit) \div (2 * Unit)

\* the score before rounding and clipping, in score units
rawScore(r, t) ==
    LET timeSinceLastActivity == t - r.lastActivityRef
        recentMouseMovements == Len(within(r.mouseMovementsRef, t, 30000))
        recentKeyPresses == Len(within(r.keyPressesRef, t, 30000))
        recentClicks == Len(within(r.clicksRef, t, 30000))
        recentScrolls == Len(within(r.scrollsRef, t, 30000))
        shortMouseMovements == Len(within(r.mouseMovementsRef, t, 10000))
        shortKeyPresses == Len(within(r.keyPressesRef, t, 10000))
        totalRecentActivity ==
            recentMouseMovements + recentKeyPresses + recentClicks + recentScrolls
        activityTypes ==
            Cardinality({k \in {<<1, recentMouseMovements>>, <<2, recentKeyPresses>>,
                                <<3, recentClicks>>, <<4, recentScrolls>>} : k[2] > 0})
        shortTermActivity == shortMouseMovements + shortKeyPresses
        visibility == IF ~r.pageVisibilityRef THEN 50 * Unit ELSE 0
        windowFocus == IF ~r.windowFocusRef THEN 35 * Unit ELSE 0
        inactivityPenalty ==
            IF timeSinceLastActivity > 15000
            THEN Min(30 * Unit, (timeSinceLastActivity - 15000) * ((2 * Unit) \div 1000))
            ELSE 0
        diversity == IF activityTypes >= 2 THEN Min(15, activityTypes * 5) * Unit ELSE 0
        engagement ==
            IF totalRecentActivity >= 10
            THEN Min(10 * Unit, totalRecentActivity * (Unit \div 5)) ELSE 0
        shortTerm == IF shortTermActivity > 0 THEN Min(8, shortTermActivity) * Unit ELSE 0
        idle ==
            IF r.idleTimeRef > 45000
            THEN Min(25 * Unit, r.idleTimeRef * ((15 * Unit) \div 45000)) ELSE 0
        erratic ==
            IF totalRecentActivity > 100
            THEN Min(15 * Unit, (totalRecentActivity - 100) * (Unit \div 20)) ELSE 0
        \* activityRate = totalRecentActivity / 30 within [0.3, 2]
        consistency ==
            IF totalRecentActivity * 10 >= 3 * 30 /\ totalRecentActivity <= 2 * 30
            THEN 5 * Unit ELSE 0
    IN  100 * Unit - visibility - windowFocus - inactivityPenalty + diversity
          + engagement + shortTerm - idle - erratic + consistency

\* faulty variant: the score is rounded but not clipped
calculateFocusScore_unclipped(r, t) == mathRound(rawScore(r, t))

calculateFocusScore(r, t) == Max(0, Min(MaxScore, mathRound(rawScore(r, t))))

detectDistractions(r, t) ==
    LET recentMouse == Len(within(r.mouseMovementsRef, t, 10000))
        recentClicks == Len(within(r.clicksRef, t, 30000))
        recentKeys == Len(within(r.keyPressesRef, t, 30000))
        totalActivity == recentMouse + recentClicks + recentKeys
        flag(cond, text) == IF cond THEN <<text>> ELSE <<>>
    IN  flag(~r.pageVisibilityRef, "Tab not visible")
        \o flag(~r.windowFocusRef, "Window not in focus")
        \o flag(t - r.lastActivityRef > 20000, "No recent activity")
        \o flag(r.idleTimeRef > 90000, "Extended idle period")
        \o flag(recentMouse > 60, "Excessive mouse activity")
        \o flag(recentClicks > 20, "Rapid clicking detected")
        \o flag(totalActivity < 3 /\ t - r.lastActivityRef < 60000, "Very low engagement")

\* the hook as a handler sees it
Engine ==
    [isTracking |-> isTracking, focusScore |-> focusScore, metrics |-> metrics,
     refs |-> refs, intervals |-> intervals, listeners |-> listeners]

\* the handle setInterval returns: the smallest one not in use
newInterval(e) ==
    CHOOSE id \in 1..(Cardinality(e.intervals) + Cardinality(e.listeners) + 1) :
        /\ id \notin e.listeners
        /\ \A i \in e.intervals : i.id # id
        /\ \A smaller \in 1..(id - 1) :
              smaller \in e.listeners \/ \E i \in e.intervals : i.id = smaller

\* startTracking as the render that saw isTracking = seen made it
startTracking(e, seen, t) ==
    IF seen THEN e
    ELSE LET id == newInterval(e)
         IN  [e EXCEPT !.refs = [@ EXCEPT !.sessionIdRef = t,
                                          !.lastActivityRef = t,
                                          !.mouseMovementsRef = <<>>,
                                          !.keyPressesRef = <<>>,
                                          !.clicksRef = <<>>,
                                          !.scrollsRef = <<>>,
                                          !.idleTimeRef = 0,
                                          !.trackingIntervalRef = id],
                       !.listeners = @ \cup {id},
                       !.isTracking = TRUE,
                       !.intervals = @ \cup {[id |-> id, due |-> t + TrackingPeriod]}]

stopTracking(e, t) ==
    LET current == e.refs.trackingIntervalRef
    IN  [e EXCEPT !.isTracking = FALSE,
                  !.listeners = @ \ {current},
                  !.intervals = {i \in @ : i.id # current},
                  !.refs = [@ EXCEPT !.trackingIntervalRef = NoInterval,
                                     !.sessionIdRef = NoTime,
                                     !.lastActivityRef = t,
                                     !.mouseMovementsRef = <<>>,
                                     !.keyPressesRef = <<>>,
                                     !.clicksRef = <<>>,
                                     !.scrollsRef = <<>>,
                                     !.idleTimeRef = 0,
                                     !.pageVisibilityRef = TRUE,
                                     !.windowFocusRef = TRUE],
                  !.focusScore = 0]

\* prev.slice(-(n))
lastOf(list, n) ==
    IF Len(list) <= n THEN list ELSE SubSeq(list, Len(list) - n + 1, Len(list))

\* faulty variant: the history is never cut
history_uncut(prev, newMetric) == Append(prev, newMetric)

\* setMetrics(prev => [...prev.slice(-99), newMetric])
history(prev, newMetric) == Append(lastOf(prev, MaxMetrics - 1), newMetric)

\* faulty variant: the tick publishes the score and nothing else
trackingCallback_scoreOnly(e, id, t) ==
    [e EXCEPT !.focusScore = calculateFocusScore(e.refs, t),
              !.intervals = {IF i.id = id THEN [i EXCEPT !.due = t + TrackingPeriod]
                             ELSE i : i \in @}]

\* the callback of the interval id, at time t
trackingCallback(e, id, t) ==
    LET currentScore == calculateFocusScore(e.refs, t)
        timeSinceActivity == t - e.refs.lastActivityRef
        newMetric ==
            [timestamp |-> t,
             sessionId |-> e.refs.sessionIdRef,
             attentionScore |-> currentScore,
             eyeContact |-> currentScore > 70 /\ e.refs.pageVisibilityRef,
             posture |-> IF currentScore > 80 THEN "good"
                         ELSE IF currentScore > 50 THEN "fair" ELSE "poor",
             distractions |-> (100 - currentScore) \div 25]
    IN  [e EXCEPT !.focusScore = currentScore,
                  !.refs.idleTimeRef = IF timeSinceActivity > 5000 THEN @ + 2000 ELSE @,
                  !.metrics = history(@, newMetric),
                  !.intervals = {IF i.id = id THEN [i EXCEPT !.due = t + TrackingPeriod]
                                 ELSE i : i \in @}]

\* faulty variant: the handler keeps the timestamps of its own kind only
activity_ownKindOnly(r, kind, t) ==
    [r EXCEPT !.lastActivityRef = t,
              !.idleTimeRef = 0,
              !.mouseMovementsRef = IF kind = "mouseMovementsRef"
                                    THEN within(Append(@, t), t, RetentionWindow) ELSE <<>>,
              !.keyPressesRef = IF kind = "keyPressesRef"
                                THEN within(Append(@, t), t, RetentionWindow) ELSE <<>>,
              !.clicksRef = IF kind = "clicksRef"
                            THEN within(Append(@, t), t, RetentionWindow) ELSE <<>>,
              !.scrollsRef = IF kind = "scrollsRef"
                             THEN within(Append(@, t), t, RetentionWindow) ELSE <<>>]

\* one listener's handler of an activity event: kind is the list it records into
activity(r, kind, t) ==
    [r EXCEPT !.lastActivityRef = t,
              !.idleTimeRef = 0,
              ![kind] = within(Append(@, t), t, RetentionWindow)]

handleMouseMove(r, t) == activity(r, "mouseMovementsRef", t)
handleKeyPress(r, t) == activity(r, "keyPressesRef", t)
handleClick(r, t) == activity(r, "clicksRef", t)
handleScroll(r, t) == activity(r, "scrollsRef", t)

ActivityKinds == {"mouseMovementsRef", "keyPressesRef", "clicksRef", "scrollsRef"}

\* an event runs the handler of every registered set of listeners
RECURSIVE dispatch(_, _, _, _)
dispatch(r, kind, t, n) ==
    IF n = 0 THEN r
    ELSE dispatch(CASE kind = "mouseMovementsRef" -> handleMouseMove(r, t)
                    [] kind = "keyPressesRef" -> handleKeyPress(r, t)
                    [] kind = "clicksRef" -> handleClick(r, t)
                    [] kind = "scrollsRef" -> handleScroll(r, t),
                  kind, t, n - 1)

\* the PomodoroSession handed to storePomodoroSession by the call that closed over c
\* (id, userId and the two dates are left out)
session(c) ==
    [type |-> IF c.isFocus THEN "focus" ELSE "break",
     duration |-> IF c.isFocus THEN c.settings.focusDuration ELSE c.settings.breakDuration,
     completed |-> TRUE,
     focusScore |-> 0]

-----------------------------------------------------------------------------
(* The Scoring Engine's actions: useFocus under FocusProvider *)

\* live scoring intervals at once
MaxTrackers == 2
\* resume timeouts pending at once
MaxTimeouts == 2
\* activity timestamps held at once
MaxEvents == 2
\* the lifecycle is followed for FocusSeconds seconds
FocusSeconds == 2
\* an idle session is followed for IdleSeconds seconds
IdleSeconds == 204
\* milliseconds by which Date.now() advances while the page is left alone
WaitStep == 150000
\* the page is left alone MaxWaits times
MaxWaits == 2

\* the resume delays of FocusProvider
MountDelay == 100
RouteDelay == 300
PopstateDelay == 200

FocusMaxTime == StartTime + FocusSeconds * MsPerSecond
IdleMaxTime == StartTime + IdleSeconds * MsPerSecond
WaitMaxTime == StartTime + MaxWaits * WaitStep

\* the timer's state: what no action of the Scoring Engine touches
timerState ==
    <<state, intervalRef, tickers, startTimeRef, pending, autoStart, firstRender, mounted,
      lsState, lsTimestamp, lsLastAction, lsHiddenTimestamp, run, vis>>

CommitEngine(e) ==
    /\ Cardinality(e.intervals) <= MaxTrackers
    /\ isTracking' = e.isTracking
    /\ focusScore' = e.focusScore
    /\ metrics' = e.metrics
    /\ refs' = e.refs
    /\ intervals' = e.intervals
    /\ listeners' = e.listeners

\* setTimeout(resumeTracking, delay) by a render that saw isTracking = seen; a
\* timeout whose render saw isTracking = true does nothing when it fires
schedule(seen, delay) ==
    IF preference /\ ~seen
    THEN Append(timeouts, [due |-> now + delay, seen |-> seen])
    ELSE timeouts

\* FocusProvider is mounted and the user is at the page
FocusUserCan == lastPathnameRef # "" /\ ~hidden

\* the effects of FocusProvider's first render (user signed in)
FocusMount ==
    /\ lastPathnameRef = ""
    /\ lastPathnameRef' = pathname
    /\ timeouts' = schedule(isTracking, MountDelay)
    /\ Did("focusMount", NoArg)
    /\ UNCHANGED <<isTracking, focusScore, metrics, refs, intervals, listeners,
                   preference, pathname, timerState, hidden, now>>

\* startGlobalTracking
StartTracking ==
    /\ FocusUserCan
    /\ CommitEngine(startTracking(Engine, isTracking, now))
    /\ preference' = TRUE
    /\ Did("startTracking", NoArg)
    /\ UNCHANGED <<timeouts, pathname, lastPathnameRef, timerState, hidden, now>>

\* stopGlobalTracking
StopTracking ==
    /\ FocusUserCan
    /\ CommitEngine(stopTracking(Engine, now))
    /\ preference' = FALSE
    /\ Did("stopTracking", NoArg)
    /\ UNCHANGED <<timeouts, pathname, lastPathnameRef, timerState, hidden, now>>

\* a resume timeout fires: resumeTracking calls the startTracking of its render
TimeoutFires(k) ==
    /\ k \in 1..Len(timeouts)
    /\ timeouts[k].due <= now
    /\ CommitEngine(startTracking(Engine, timeouts[k].seen, now))
    /\ timeouts' = SubSeq(timeouts, 1, k - 1) \o SubSeq(timeouts, k + 1, Len(timeouts))
    /\ Did("resume", NoArg)
    /\ UNCHANGED <<preference, pathname, lastPathnameRef, timerState, hidden, now>>

\* the scoring tick of a live interval
TrackingTick(id) ==
    /\ \E i \in intervals : i.id = id /\ i.due <= now
    /\ CommitEngine(trackingCallback(Engine, id, now))
    /\ Did("trackingTick", id)
    /\ UNCHANGED <<timeouts, preference, pathname, lastPathnameRef, timerState,
                   hidden, now>>

\* a route change: the resume effect runs again
Navigate(path) ==
    /\ FocusUserCan
    /\ path # pathname
    /\ pathname' = path
    /\ lastPathnameRef' = path
    /\ timeouts' = schedule(isTracking, RouteDelay)
    /\ Len(timeouts') <= MaxTimeouts
    /\ Did("navigate", NoArg)
    /\ UNCHANGED <<isTracking, focusScore, metrics, refs, intervals, listeners,
                   preference, timerState, hidden, now>>

\* popstate: handleRouteChange
Popstate ==
    /\ FocusUserCan
    /\ preference /\ ~isTracking
    /\ timeouts' = schedule(isTracking, PopstateDelay)
    /\ Len(timeouts') <= MaxTimeouts
    /\ Did("popstate", NoArg)
    /\ UNCHANGED <<isTracking, focusScore, metrics, refs, intervals, listeners,
                   preference, pathname, lastPathnameRef, timerState, hidden, now>>

\* visibilitychange: the handler of every registered set of listeners, and
\* FocusProvider's handleVisibilityChange
FocusVisibilityChange ==
    /\ lastPathnameRef # ""
    /\ hidden' = ~hidden
    /\ LET seen == IF listeners # {}
                   THEN [Engine EXCEPT !.refs.pageVisibilityRef = ~hidden']
                   ELSE Engine
       IN  CommitEngine(IF ~hidden' /\ preference /\ ~isTracking
                        THEN startTracking(seen, isTracking, now) ELSE seen)
    /\ Did("visibilitychange", NoArg)
    /\ UNCHANGED <<timeouts, preference, pathname, lastPathnameRef, timerState, now>>

\* window blur: handleWindowBlur
WindowBlur ==
    /\ listeners # {}
    /\ refs.windowFocusRef
    /\ refs' = [refs EXCEPT !.windowFocusRef = FALSE]
    /\ Did("blur", NoArg)
    /\ UNCHANGED <<isTracking, focusScore, metrics, intervals, listeners, timeouts,
                   preference, pathname, lastPathnameRef, timerState, hidden, now>>

\* window focus: handleWindowFocus
WindowFocus ==
    /\ listeners # {}
    /\ ~refs.windowFocusRef
    /\ refs' = [refs EXCEPT !.windowFocusRef = TRUE]
    /\ Did("focus", NoArg)
    /\ UNCHANGED <<isTracking, focusScore, metrics, intervals, listeners, timeouts,
                   preference, pathname, lastPathnameRef, timerState, hidden, now>>

\* mousemove, keydown, click or scroll
ActivityEvent(kind) ==
    /\ ~hidden
    /\ listeners # {}
    /\ refs' = dispatch(refs, kind, now, Cardinality(listeners))
    /\ Len(refs'.mouseMovementsRef) + Len(refs'.keyPressesRef)
         + Len(refs'.clicksRef) + Len(refs'.scrollsRef) <= MaxEvents
    /\ Did("activity", kind)
    /\ UNCHANGED <<isTracking, focusScore, metrics, intervals, listeners, timeouts,
                   preference, pathname, lastPathnameRef, timerState, hidden, now>>

\* the times at which a timeout or an interval is due
Dues == {i.due : i \in intervals} \cup {timeouts[k].due : k \in 1..Len(timeouts)}

\* time passes until the next timer is due
Elapse(limit) ==
    /\ Dues # {}
    /\ \A due \in Dues : due > now
    /\ now' \in Dues
    /\ \A due \in Dues : now' <= due
    /\ now' <= limit
    /\ UNCHANGED <<engineVars, timerState, hidden, last>>

\* the page is left alone for a long time, the timers throttled
Wait ==
    /\ lastPathnameRef # ""
    /\ now + WaitStep <= WaitMaxTime
    /\ now' = now + WaitStep
    /\ UNCHANGED <<engineVars, timerState, hidden, last>>

\* the lifecycle of tracking: the user, the resume timers, the route and the page
FocusInit == TimerInit /\ lsState = <<>> /\ \E saved \in BOOLEAN : EngineInit(saved)

FocusNext ==
    \/ FocusMount
    \/ StartTracking
    \/ StopTracking
    \/ \E k \in 1..MaxTimeouts : TimeoutFires(k)
    \/ \E id \in 1..MaxTrackers : TrackingTick(id)
    \/ \E path \in {HomePath, DashboardPath} : Navigate(path)
    \/ Popstate
    \/ FocusVisibilityChange
    \/ WindowBlur
    \/ WindowFocus
    \/ \E kind \in ActivityKinds : ActivityEvent(kind)
    \/ Elapse(FocusMaxTime)

FocusSpec == FocusInit /\ [][FocusNext]_vars

\* a session nobody touches: started once, then only the scoring tick
IdleInit == TimerInit /\ lsState = <<>> /\ EngineInit(FALSE)

IdleNext ==
    \/ FocusMount
    \/ StartTracking
    \/ \E id \in 1..MaxTrackers : TrackingTick(id)
    \/ Elapse(IdleMaxTime)

IdleSpec == IdleInit /\ [][IdleNext]_vars

\* a tracked session with activity, in which long stretches of time pass
ActivityNext ==
    \/ FocusMount
    \/ StartTracking
    \/ \E id \in 1..MaxTrackers : TrackingTick(id)
    \/ FocusVisibilityChange
    \/ WindowBlur
    \/ WindowFocus
    \/ \E kind \in ActivityKinds : ActivityEvent(kind)
    \/ Wait

ActivitySpec == IdleInit /\ [][ActivityNext]_vars

-----------------------------------------------------------------------------
(* The completed-session record and the Scoring Engine's attention score *)

\* a page load over a stopped snapshot, the timer run to completion while the
\* Scoring Engine tracks or not
RecordInit == Init /\ lsState # <<>> /\ ~lsState[1].isRunning

RecordNext ==
    \/ Mount
    \/ Start
    \/ Tick
    \/ \E i \in 1..MaxPending : StoreSettles(i)
    \/ AdvanceClock
    \/ FocusMount
    \/ StartTracking
    \/ \E id \in 1..MaxTrackers : TrackingTick(id)
    \/ StopTracking

RecordSpec == RecordInit /\ [][RecordNext]_vars

\* C20: the record emitted when a Focus phase completes carries the Scoring Engine's
\* current attention score while tracking is active, and 0 while it is not
C20_RecordCarriesScore ==
    [][ (Len(pending') > Len(pending) /\ state.isFocus) =>
           LET record == session(pending'[Len(pending')])
           IN  /\ record.type = "focus"
               /\ record.focusScore = IF isTracking THEN focusScore ELSE 0 ]_vars

-----------------------------------------------------------------------------
(* The Scoring Engine's claims *)

\* C21: every computed score, the live one and the attentionScore of every metric, is
\* an integer from 0 to 100, whatever the activity, the visibility, the window focus
\* and the ticks were
C21_ScoreBounds ==
    /\ focusScore \in 0..MaxScore
    /\ \A i \in 1..Len(metrics) : metrics[i].attentionScore \in 0..MaxScore

\* a tick clipped a score above 100 after an earlier tick clipped one below 0
C21_Witness ==
    /\ last.op = "trackingTick"
    /\ rawScore(refs, now) > MaxScore * Unit
    /\ focusScore = MaxScore
    /\ \E i \in 1..Len(metrics) :
          /\ metrics[i].attentionScore = 0
          /\ ~metrics[i].eyeContact
          /\ metrics[i].distractions = 4

\* tracking has run for 100 seconds without an activity event, the page visible and
\* the window in focus
IdleFor100s ==
    /\ isTracking
    /\ now - refs.sessionIdRef = 100 * MsPerSecond
    /\ refs.lastActivityRef = refs.sessionIdRef
    /\ refs.pageVisibilityRef /\ refs.windowFocusRef

\* C22: after 100 seconds of 2-second ticks without activity, page visible and window
\* in focus, the distraction detector returns "No recent activity" and "Extended idle
\* period", in that order, and nothing else
C22_IdleDistractions ==
    IdleFor100s =>
        detectDistractions(refs, now) = <<"No recent activity", "Extended idle period">>

\* the 50th tick has fired
C22_Witness ==
    /\ IdleFor100s
    /\ last.op = "trackingTick"
    /\ Len(metrics) = 50
    /\ refs.idleTimeRef = 48 * TrackingPeriod
    /\ Len(detectDistractions(refs, now)) = 2

\* C23: after 100 seconds of 2-second ticks without activity, page visible and window
\* in focus, the computed score is at most 40
C23_IdleScore ==
    (IdleFor100s /\ last.op = "trackingTick" /\ Len(metrics) = 50) =>
        /\ focusScore <= 40
        /\ calculateFocusScore(refs, now) <= 40

\* C28: the metric history never holds more than 100 entries; a scoring tick appends
\* exactly one metric, and when the history is full the oldest entry is dropped and
\* the others keep their order
C28_HistoryBounded ==
    [][ /\ Len(metrics') <= MaxMetrics
        /\ Handled("trackingTick") =>
              /\ Len(metrics') = Min(Len(metrics) + 1, MaxMetrics)
              /\ metrics'[Len(metrics')].timestamp = now
              /\ SubSeq(metrics', 1, Len(metrics') - 1)
                   = IF Len(metrics) < MaxMetrics THEN metrics ELSE Tail(metrics) ]_vars

\* a tick on a full history: the metric of the first tick is gone
C28_Witness ==
    /\ last.op = "trackingTick"
    /\ Len(metrics) = MaxMetrics
    /\ metrics[1].timestamp > refs.sessionIdRef + TrackingPeriod
    /\ metrics[MaxMetrics].timestamp = now

\* C29: after an activity event is inserted, no list of timestamps (pointer moves, key
\* presses, clicks, scrolls) holds a timestamp that is 5 minutes old or older
C29_RetentionWindow ==
    [][ Handled("activity") =>
           \A kind \in ActivityKinds :
              \A i \in 1..Len(refs'[kind]) : now - refs'[kind][i] < RetentionWindow ]_vars

\* C30: when a Break phase completes, by expiry or by skip, the Focus phase that
\* follows starts with timeLeft = focusDuration * 60; the break durations are never
\* the length of a Focus phase
C30_FocusAfterBreak ==
    [][ (~state.isFocus /\ state'.isFocus) =>
           state'.timeLeft = state'.settings.focusDuration * SecPerMin ]_vars

\* C25: however the startTracking calls of the user, of the resume timeouts, of the
\* visibility handler and of the popstate handler interleave, at most one scoring
\* tick and one set of event listeners is registered
C25_SingleTracker ==
    /\ Cardinality(intervals) <= 1
    /\ Cardinality(listeners) <= 1

\* what stopTracking leaves behind: not tracking, live score 0, every counter zero, no
\* scoring tick scheduled, no event listener registered
Stopped ==
    /\ ~isTracking
    /\ focusScore = 0
    /\ refs = [freshRefs(refs.lastActivityRef) EXCEPT !.lastActivityRef = @]
    /\ intervals = {}
    /\ listeners = {}

\* C24: stopTracking leaves the engine stopped (not tracking, score 0, counters zero, no
\* tick scheduled, no listeners registered) whenever it is called, and a second call
\* in a row changes nothing
C24_StopIdempotent ==
    [][ Handled("stopTracking") =>
           /\ Stopped'
           /\ last.op = "stopTracking" =>
                 /\ UNCHANGED <<isTracking, focusScore, metrics, intervals, listeners>>
                 /\ [refs' EXCEPT !.lastActivityRef = 0] = [refs EXCEPT !.lastActivityRef = 0]
      ]_vars

\* C26: from the return of stopTracking to the next startTracking no scoring tick
\* fires: the live score stays 0 and no metric is appended or forwarded
C26_NoTickAfterStop ==
    [][ (~isTracking /\ ~isTracking') =>
           /\ ~Handled("trackingTick")
           /\ focusScore' = 0
           /\ metrics' = metrics ]_vars

\* the hook as it is before the first startTracking, at time t
freshEngine(t) ==
    [isTracking |-> FALSE, focusScore |-> 0, metrics |-> <<>>, refs |-> freshRefs(t),
     intervals |-> {}, listeners |-> {}]

\* C27: a tracking session that starts after a stop begins from the state a first
\* session begins from, so that its scores depend only on what happens after the start:
\* nothing of the sessions before it, counter, tick or listener, is left
C27_SessionsIsolated ==
    [][ (~isTracking /\ isTracking') =>
           LET first == startTracking(freshEngine(now), FALSE, now)
           IN  /\ refs' = first.refs
               /\ focusScore' = first.focusScore
               /\ intervals' = first.intervals
               /\ listeners' = first.listeners ]_vars

-----------------------------------------------------------------------------
(* The Session State Machine: concurrency, persistence, settings *)

\* the timer when no phase is skipped: a phase completes by expiry only
ExpiryNext ==
    \/ Mount
    \/ Start
    \/ Pause
    \/ Reset
    \/ \E input \in SettingsInputs : UpdateSettings(input[1], input[2])
    \/ Tick
    \/ AutoStartFires
    \/ \E i \in 1..MaxPending : StoreSettles(i)
    \/ VisibilityChange
    \/ AdvanceClock

ExpirySpec == Init /\ [][ExpiryNext]_vars

\* C31: an expiry causes one completion transition and at most one record, also when
\* the user or the auto-start timeout acts while the record is being sent: a transition
\* that finishes after such an action leaves the state that action produced as it is
C31_LateTransitionHarmless ==
    [][ ( /\ Handled("settle")
          /\ last.op \in {"start", "reset", "updateSettings", "autoStart"}
          /\ state.isRunning \/ state.timeLeft # 0 ) => state' = state ]_vars

\* C32: a running countdown never loses more seconds than the wall clock counted: when
\* the page is shown again, timeLeft has dropped since the page was hidden by no more
\* than the whole seconds that passed since, ticks delivered while hidden included
C32_NoDoubleCount ==
    [][ ( /\ Handled("visible")
          /\ vis # <<>>
          /\ state'.isFocus /\ state'.sessionCount = vis[1].count ) =>
           vis[1].timeLeft - state'.timeLeft <= (now - vis[1].at) \div MsPerSecond ]_vars

\* C33: a running session always has time left
C33_RunningHasTime ==
    state.isRunning => state.timeLeft > 0

\* C34: at most one 1-second tick is registered at any time, the one the machine
\* holds the handle of, and none while the session is not running
C34_OneTick ==
    /\ tickers <= 1
    /\ tickers = IF intervalRef # NoTime THEN 1 ELSE 0
    /\ ~state.isRunning => tickers = 0

\* C34 witness: the tick was registered, cleared by pause and registered again by
\* start, and it has fired since
C34_Witness ==
    /\ last.op = "tick"
    /\ state.isRunning
    /\ startTimeRef
    /\ lsLastAction = FALSE
    /\ tickers = 1

\* C35: in the persisted store the saved-at timestamp is present exactly when the
\* persisted session state is running
C35_TimestampIffRunning ==
    lsState # <<>> => (lsTimestamp # NoTime <=> lsState[1].isRunning)

\* C35 witness: a running state was written with its timestamp and the pause that
\* followed wrote a non-running state and removed it
C35_Witness ==
    /\ last.op = "pause"
    /\ last.wasRunning
    /\ lsState # <<>>
    /\ ~lsState[1].isRunning
    /\ lsTimestamp = NoTime
    /\ startTimeRef

\* C36: while running, every mutation of the session state is written to the persisted
\* snapshot: after a tick (the one that reaches 0 included), a user action or a
\* visibility correction that changed the state, the persisted state equals the state
\* in memory, and loading it at that instant gives the same phase, count and timeLeft
C36_SnapshotFollowsState ==
    [][ ( /\ mounted
          /\ now' = now
          /\ state.isRunning
          /\ state' # state ) =>
            /\ lsState' = <<state'>>
            /\ LET loaded == InitialState(lsState', lsTimestamp')
               IN  /\ loaded.isFocus = state'.isFocus
                   /\ loaded.sessionCount = state'.sessionCount
                   /\ loaded.timeLeft = state'.timeLeft ]_vars

\* C37: updateSettings with a partial that does not change focusDuration (the field
\* is absent, or has its current value) leaves timeLeft, phase and count unchanged
\* and leaves the session not running
C37_SettingsKeepCountdown ==
    [][ ( /\ Handled("updateSettings")
          /\ \/ last'.arg[1] # "focusDuration"
             \/ last'.arg[2] = state.settings.focusDuration ) =>
            /\ state'.timeLeft = state.timeLeft
            /\ state'.isFocus = state.isFocus
            /\ state'.sessionCount = state.sessionCount
            /\ ~state'.isRunning ]_vars

\* the long-break interval is reconfigured in the middle of a cycle
IntervalInputs == {<<"longBreakInterval", 1>>}

IntervalNext ==
    \/ Mount
    \/ Start
    \/ Skip
    \/ \E input \in IntervalInputs : UpdateSettings(input[1], input[2])
    \/ Tick
    \/ \E i \in 1..MaxPending : StoreSettles(i)
    \/ AdvanceClock

IntervalSpec == Init /\ [][IntervalNext]_vars

\* C38: changing longBreakInterval leaves the count unchanged, and once it has been
\* changed the next completion transition, by expiry or by skip(), is the one computed
\* from the current settings (the new interval) and the accumulated count, at once
\* or, when a record is posted first, by the continuation that waits for the store
C38_NewIntervalUsed ==
    [][ /\ ( /\ Handled("updateSettings")
             /\ state.isRunning \/ state.timeLeft # 0 ) =>
                state'.sessionCount = state.sessionCount
        /\ ( /\ now' = now
             /\ \/ last'.op = "skip"
                \/ last'.op = "tick" /\ state.timeLeft <= 1
             /\ state.settings.longBreakInterval # firstRender.settings.longBreakInterval
             /\ pending = <<>> ) =>
                IF startTimeRef
                THEN pending' = <<Closure(state)>>
                ELSE LET next == switchSession(World, Closure(state)).state
                     IN  /\ state'.isFocus = next.isFocus
                         /\ state'.timeLeft = next.timeLeft
                         /\ state'.sessionCount = next.sessionCount ]_vars

-----------------------------------------------------------------------------
(* The Scoring Engine: the environment's flags and the order of events *)

\* long enough for a tracker that a resume timeout started to reach its first tick
HiddenSeconds == 3
HiddenMaxTime == StartTime + HiddenSeconds * MsPerSecond

\* tracking over the page's visibility: the user, the resume timeout, the page
HiddenNext ==
    \/ FocusMount
    \/ StartTracking
    \/ StopTracking
    \/ \E k \in 1..MaxTimeouts : TimeoutFires(k)
    \/ \E id \in 1..MaxTrackers : TrackingTick(id)
    \/ FocusVisibilityChange
    \/ Elapse(HiddenMaxTime)

HiddenSpec == FocusInit /\ [][HiddenNext]_vars

\* C39: while tracking is active the engine's page-visible flag equals the page's
\* actual visibility at every scoring tick, also when tracking was started while
\* the page was hidden, so that a tick on a hidden page scores the -50 penalty
C39_FlagsFollowEnvironment ==
    [][ (Handled("trackingTick") /\ isTracking) =>
            refs.pageVisibilityRef = ~hidden ]_vars

\* the refs after two events of kinds first and second arrive in the same millisecond
inserted(first, second) ==
    dispatch(dispatch(refs, first, now, Cardinality(listeners)),
             second, now, Cardinality(listeners))

\* C40: inserting two activity events that carry the same millisecond timestamp, of
\* the same or of different kinds, leaves the same lists, the same last activity
\* time and the same idle time in either order, and so the same next score
C40_InsertionCommutes ==
    listeners # {} =>
       \A first, second \in ActivityKinds :
          /\ inserted(first, second) = inserted(second, first)
          /\ calculateFocusScore(inserted(first, second), now)
               = calculateFocusScore(inserted(second, first), now)

\* C40 witness: a pointer move and a key press of the same millisecond are both
\* recorded, after an earlier stretch of time has passed
C40_Witness ==
    /\ last.op = "activity"
    /\ now > StartTime
    /\ refs.lastActivityRef = now
    /\ refs.mouseMovementsRef = <<now>>
    /\ refs.keyPressesRef = <<now>>
====
